---------------------------- MODULE Spec2Model ----------------------------
(***************************************************************************)
(* Model of Problem_2/rrt.py: RRT.solve driven by the GeometricRRT        *)
(* (holonomic, Euclidean) dynamics.                                        *)
(*                                                                         *)
(* States are 2-D points with integer coordinates.  Distances are kept     *)
(* squared (the code only compares them), and one loop iteration of solve  *)
(* is one step.  A step is taken only for samples on which steer_towards   *)
(* is exact on the integers (SteerExact): the target is closer than eps,   *)
(* or the motion is a whole number of grid cells.  For the coordinates    *)
(* used here IEEE doubles compute these cases exactly, so every behaviour  *)
(* of the model is a run of the program.                                   *)
(***************************************************************************)
EXTENDS Integers, Sequences, FiniteSets, TLC

\* ---------------------------------------------------------------- bounds
MaxIters == 3      \* largest max_iters passed to solve
MaxCoord == 2      \* the sampling box is [-MaxCoord, MaxCoord] x [0, 1]

\* ------------------------------------------------------------- constants
NONE == -1         \* parent of the root, and of every slot never written
INF  == -1         \* float('inf') for the squared-distance threshold

VARIABLES
    x_init, x_goal, obstacles,      \* the planning problem (RRT.__init__)
    eps, max_iters, goal_bias,      \* arguments of solve
    V, P, n,                        \* the planning tree
    success, solution_path,         \* intermediate outputs of solve
    k,                              \* loop variable (0: loop not entered yet)
    z, xrand, xnearidx, xnew, free, \* locals of the last iteration
    draws,                          \* calls made to np.random.uniform
    drawlog,                        \* what each of those calls drew, in order
    pc                              \* "loop" or "done"

cfgvars == <<x_init, x_goal, obstacles, eps, max_iters, goal_bias>>
locals  == <<z, xrand, xnearidx, xnew, free>>
vars == <<x_init, x_goal, obstacles, eps, max_iters, goal_bias, V, P, n,
          success, solution_path, k, z, xrand, xnearidx, xnew, free, draws,
          drawlog, pc>>

\* ------------------------------------------------------------ the inputs
statespace_lo == <<0 - MaxCoord, 0>>
statespace_hi == <<MaxCoord, 1>>

\* integer points of the box np.random.uniform(lo, hi) samples from
Box == {p \in ((0 - MaxCoord)..MaxCoord) \X (0..1) :
          /\ statespace_lo[1] <= p[1] /\ p[1] <= statespace_hi[1]
          /\ statespace_lo[2] <= p[2] /\ p[2] <= statespace_hi[2]}

\* z and goal_bias in halves: z is 0 or 1/2, goal_bias is 0, 1/2 or 1
ZDraws    == {0, 1}
GoalBiases == {0, 1, 2}
EpsValues == {1, 2}
Inits     == {<<0, 0>>, <<-1, 0>>}
Goals     == {<<1, 1>>, <<2, 0>>}
\* obstacle sets: none, or one wall from (1,-1) to (1,0)
ObstacleSets == {{}, {<< <<1, -1>>, <<1, 0>> >>}}

NoState == <<>>

\* --------------------------------------------------------- vector helpers
Sub(a, b) == <<a[1] - b[1], a[2] - b[2]>>

\* np.linalg.norm(a), squared
Norm2(a) == a[1] * a[1] + a[2] * a[2]

\* the integer r with r*r = m when m is a perfect square, else the floor
ISqrt(m) == CHOOSE r \in 0..m : r * r <= m /\ (r + 1) * (r + 1) > m

array_equal(a, b) == a = b

\* ------------------------------------------------- GeometricRRT.find_nearest
RECURSIVE NearestLoop(_, _, _, _, _)
NearestLoop(Vs, x, i, threshold, nearidx) ==
    IF i \notin DOMAIN Vs THEN nearidx
    ELSE IF Norm2(Vs[i]) = 0
         THEN NearestLoop(Vs, x, i + 1, threshold, nearidx)
         ELSE LET dist == Norm2(Sub(Vs[i], x))
              IN IF (threshold = INF \/ dist < threshold) /\ threshold # 0
                 THEN NearestLoop(Vs, x, i + 1, dist, i)
                 ELSE NearestLoop(Vs, x, i + 1, threshold, nearidx)

\* find_nearest without the test that skips all-zero rows
RECURSIVE NearestLoopAll(_, _, _, _, _)
NearestLoopAll(Vs, x, i, threshold, nearidx) ==
    IF i \notin DOMAIN Vs THEN nearidx
    ELSE LET dist == Norm2(Sub(Vs[i], x))
         IN IF (threshold = INF \/ dist < threshold) /\ threshold # 0
            THEN NearestLoopAll(Vs, x, i + 1, dist, i)
            ELSE NearestLoopAll(Vs, x, i + 1, threshold, nearidx)

find_nearest_all(Vs, x) == NearestLoopAll(Vs, x, 0, INF, 0)

find_nearest(Vs, x) == NearestLoop(Vs, x, 0, INF, 0)

\* -------------------------------------------------- GeometricRRT.steer_towards
\* steer_towards is computed exactly on the integers for these arguments
SteerExact(x, y, e) ==
    LET d == Sub(y, x)
        m2 == Norm2(d)
        mag == ISqrt(m2)
    IN IF m2 < e * e
       THEN TRUE
       ELSE /\ mag > 0
            /\ mag * mag = m2
            /\ (e * d[1]) % mag = 0
            /\ (e * d[2]) % mag = 0

\* steer_towards without the bound: it always returns y
steer_unbounded(x, y, e) == y

steer_towards(x, y, e) ==
    LET d == Sub(y, x)
        m2 == Norm2(d)
        mag == ISqrt(m2)
    IN IF m2 < e * e
       THEN y
       ELSE <<x[1] + (e * d[1]) \div mag, x[2] + (e * d[2]) \div mag>>

\* ------------------------------------------------ utils.line_line_intersection
\* sign of the cross product (b - a) x (c - a)
Orient(a, b, c) ==
    LET v == (b[1] - a[1]) * (c[2] - a[2]) - (b[2] - a[2]) * (c[1] - a[1])
    IN IF v > 0 THEN 1 ELSE IF v < 0 THEN -1 ELSE 0

Min(a, b) == IF a < b THEN a ELSE b
Max(a, b) == IF a > b THEN a ELSE b

\* c lies in the bounding box of segment a-b
InBox(a, b, c) ==
    /\ Min(a[1], b[1]) <= c[1] /\ c[1] <= Max(a[1], b[1])
    /\ Min(a[2], b[2]) <= c[2] /\ c[2] <= Max(a[2], b[2])

\* segments l1 and l2 share a point (touching and collinear overlap count)
line_line_intersection(l1, l2) ==
    LET a == l1[1]  b == l1[2]  c == l2[1]  d == l2[2]
        o1 == Orient(a, b, c)  o2 == Orient(a, b, d)
        o3 == Orient(c, d, a)  o4 == Orient(c, d, b)
    IN \/ (o1 * o2 < 0 /\ o3 * o4 < 0)
       \/ (o1 = 0 /\ InBox(a, b, c))
       \/ (o2 = 0 /\ InBox(a, b, d))
       \/ (o3 = 0 /\ InBox(c, d, a))
       \/ (o4 = 0 /\ InBox(c, d, b))

\* ------------------------------------------------ GeometricRRT.is_free_motion
\* is_free_motion with the motion of line 152 built from x1 alone
is_free_motion_start(obs, x1, x2) ==
    \A line \in obs : ~line_line_intersection(<<x1, x1>>, line)

is_free_motion(obs, x1, x2) ==
    \A line \in obs : ~line_line_intersection(<<x1, x2>>, line)

\* ------------------------------------------------------------- soln_path
\* the while loop: indices visited from lastidx, child to parent.  fuel cuts
\* a walk that would not end
RECURSIVE WalkUp(_, _, _)
WalkUp(Ps, stateidx, fuel) ==
    IF stateidx > -1 /\ fuel > 0
    THEN <<stateidx>> \o WalkUp(Ps, Ps[stateidx], fuel - 1)
    ELSE <<>>

entire_path(Ps, lastidx) == WalkUp(Ps, lastidx, Cardinality(DOMAIN Ps) + 1)

Reverse(s) == [j \in 1..Len(s) |-> s[Len(s) + 1 - j]]

\* soln_path with the reversing loop of line 89 replaced by the forward loop
\* of line 88
soln_path_forward(Vs, Ps, lastidx) ==
    LET walk == entire_path(Ps, lastidx)
    IN [j \in 1..Len(walk) |-> Vs[walk[j]]]

soln_path(Vs, Ps, lastidx) ==
    LET walk == entire_path(Ps, lastidx)
    IN Reverse([j \in 1..Len(walk) |-> Vs[walk[j]]])

\* ------------------------------------------------------------------ solve
\* with goal_bias = 1 every sample is x_goal and the tree is a chain from
\* x_init towards it: the chain stays on the integers when x_goal is closer
\* than eps or straight along an axis
ChainExact(init, goal, e, gb) ==
    LET d == Sub(goal, init)
    IN gb = 2 => (Norm2(d) < e * e \/ d[1] = 0 \/ d[2] = 0)

\* lines 56-67 and 94-95: the state solve sets up before the loop
Init ==
    /\ x_init \in Inits
    /\ x_goal \in Goals
    /\ obstacles \in ObstacleSets
    /\ eps \in EpsValues
    /\ max_iters \in 1..MaxIters
    /\ goal_bias \in GoalBiases
    /\ ChainExact(x_init, x_goal, eps, goal_bias)
    /\ V = [i \in 0..(max_iters - 1) |-> IF i = 0 THEN x_init ELSE <<0, 0>>]
    /\ P = [i \in 0..(max_iters - 1) |-> NONE]
    /\ n = 1
    /\ success = FALSE
    /\ solution_path = <<>>
    /\ k = 0
    /\ z = 0
    /\ xrand = NoState
    /\ xnearidx = NONE
    /\ xnew = NoState
    /\ free = FALSE
    /\ draws = 0
    /\ drawlog = <<>>
    /\ pc = "loop"

\* arguments solve is called with when nothing restricts them: eps = 0,
\* goal_bias = -1/2 or 3/2 and max_iters = 0 besides the valid ones
AnyEps == EpsValues \cup {0}
AnyGoalBiases == GoalBiases \cup {-1, 3}

\* lines 56-67 and 94-95 for any arguments.  With max_iters = 0 the arrays
\* have no row and line 61 raises IndexError
InitAny ==
    /\ x_init \in Inits
    /\ x_goal \in Goals
    /\ obstacles \in ObstacleSets
    /\ eps \in AnyEps
    /\ max_iters \in 0..MaxIters
    /\ goal_bias \in AnyGoalBiases
    /\ V = [i \in 0..(max_iters - 1) |-> IF i = 0 THEN x_init ELSE <<0, 0>>]
    /\ P = [i \in 0..(max_iters - 1) |-> NONE]
    /\ n = 1
    /\ success = FALSE
    /\ solution_path = <<>>
    /\ k = 0
    /\ z = 0
    /\ xrand = NoState
    /\ xnearidx = NONE
    /\ xnew = NoState
    /\ free = FALSE
    /\ draws = 0
    /\ drawlog = <<>>
    /\ pc = IF max_iters < 1 THEN "raised" ELSE "loop"

\* The scenario x_init = (-4,-4), x_goal = (4,4), eps = 1, goal_bias = 1, no
\* obstacles.  The plane is turned by 45 degrees about the origin, which
\* keeps every norm and distance the code computes, so the two states lie
\* on the first axis at -4*sqrt(2) and 4*sqrt(2); lengths are in tenths and
\* 4*sqrt(2) = 5.657 is taken as 5.7.  Every comparison of the run has a
\* margin above 0.3 (11.31 - j against 1, -5.657 + j against 0), so it has
\* the same outcome here.  max_iters ranges around the scenario's 10.
ScenarioIters == 1..14

ScenarioInit ==
    /\ x_init = <<-57, 0>>
    /\ x_goal = <<57, 0>>
    /\ obstacles = {}
    /\ eps = 10
    /\ max_iters \in ScenarioIters
    /\ goal_bias = 2
    /\ V = [i \in 0..(max_iters - 1) |-> IF i = 0 THEN x_init ELSE <<0, 0>>]
    /\ P = [i \in 0..(max_iters - 1) |-> NONE]
    /\ n = 1
    /\ success = FALSE
    /\ solution_path = <<>>
    /\ k = 0
    /\ z = 0
    /\ xrand = NoState
    /\ xnearidx = NONE
    /\ xnew = NoState
    /\ free = FALSE
    /\ draws = 0
    /\ drawlog = <<>>
    /\ pc = "loop"

\* the loop bound with range(1, max_iters + 1)
HasNextOneMore(kk, mi) == kk + 1 < mi + 1

\* line 96: the values range(1, max_iters) still has to give
HasNext(kk, mi) == kk + 1 < mi

\* lines 100-101
Sample(zc, s, gb, goal) == IF zc < gb THEN goal ELSE s

\* the write of line 107 made outside the feasibility test
InsertVAlways(Vs, kk, xn, fr) == [Vs EXCEPT ![kk] = xn]

\* lines 106-107
InsertV(Vs, kk, xn, fr) == IF fr THEN [Vs EXCEPT ![kk] = xn] ELSE Vs

\* line 108 storing the new slot itself instead of the nearest one
InsertPSelf(Ps, kk, ni, fr) == IF fr THEN [Ps EXCEPT ![kk] = kk] ELSE Ps

\* lines 106, 108
InsertP(Ps, kk, ni, fr) == IF fr THEN [Ps EXCEPT ![kk] = ni] ELSE Ps

\* the goal test of line 110 made outside the feasibility test
GoalReachedAnyMotion(xn, goal, fr) == array_equal(xn, goal)

\* lines 106, 110: the test that ends the search
GoalReached(xn, goal, fr) == fr /\ array_equal(xn, goal)

\* the loop without the break of line 114
NoBreak(hit) == "loop"

\* lines 110-114: break leaves the loop, otherwise it goes on
AfterIteration(hit) == IF hit THEN "done" ELSE "loop"

\* the draws of an iteration when the box sample is skipped once the bias
\* fires
IterationDrawsSkip(zc, gb) ==
    IF zc < gb THEN <<"z">> ELSE <<"z", "xrand">>

\* lines 97-98: the draws of an iteration, in the order they are made
IterationDraws(zc, gb) == <<"z", "xrand">>

\* lines 96-114: one iteration of the loop, drawing z = zc/2 and the box
\* sample s
Iterate(zc, s) ==
    /\ pc = "loop"
    /\ HasNext(k, max_iters)
    /\ LET kk == k + 1
           xr == Sample(zc, s, goal_bias, x_goal)
           ni == find_nearest(V, xr)
           xn == steer_towards(V[ni], xr, eps)
           fr == is_free_motion(obstacles, V[ni], xn)
           V1 == InsertV(V, kk, xn, fr)
           P1 == InsertP(P, kk, ni, fr)
           hit == GoalReached(xn, x_goal, fr)
       IN /\ SteerExact(V[ni], xr, eps)
          /\ k' = kk
          /\ z' = zc
          /\ draws' = draws + Len(IterationDraws(zc, goal_bias))
          /\ drawlog' = drawlog \o IterationDraws(zc, goal_bias)
          /\ xrand' = xr
          /\ xnearidx' = ni
          /\ xnew' = xn
          /\ free' = fr
          /\ V' = V1
          /\ P' = P1
          /\ success' = (success \/ hit)
          /\ solution_path' = IF hit THEN soln_path(V1, P1, kk)
                                      ELSE solution_path
          /\ pc' = AfterIteration(hit)
    /\ UNCHANGED <<cfgvars, n>>

\* line 96: range(1, max_iters) is used up and the loop ends
LoopExit ==
    /\ pc = "loop"
    /\ ~HasNext(k, max_iters)
    /\ pc' = "done"
    /\ UNCHANGED <<cfgvars, V, P, n, success, solution_path, k, locals, draws,
                   drawlog>>

Next ==
    \/ \E zc \in ZDraws, s \in Box : Iterate(zc, s)
    \/ LoopExit

Spec == Init /\ [][Next]_vars

\* solve on the scenario of spec section 8
ScenarioSpec == ScenarioInit /\ [][Next]_vars

\* solve called with any arguments
AnySpec == InitAny /\ [][Next]_vars

\* ------------------------------------------------------- derived notions
\* slots holding a state of the tree: the root and every slot given a parent
Occupied == {0} \cup {i \in DOMAIN P : P[i] # NONE}

\* the three states of the search driver
Outcome == IF success THEN "SUCCEEDED"
           ELSE IF pc = "done" THEN "EXHAUSTED" ELSE "RUNNING"

\* ------------------------------------------------------------------ C1
\* C1: at every point of solve the root has parent NONE and every other
\* occupied slot i has a parent index in 0..i-1.
C1_ParentsPointBack ==
    /\ P[0] = NONE
    /\ \A i \in Occupied \ {0} : 0 <= P[i] /\ P[i] < i

\* a tree with a node whose parent is not the root
C1_Witness == \E i \in Occupied : i >= 2 /\ P[i] >= 1 /\ P[P[i]] = 0

\* ------------------------------------------------------------------ C2
\* the slot of each state of a path of length L ending at slot last, found
\* by following P back from last
PathSlots(L, last) ==
    LET w[j \in 1..L] == IF j = L THEN last ELSE P[w[j + 1]]
    IN w

\* C2: when solve has succeeded the solution path is non-empty, starts with
\* x_init at slot 0, ends with x_goal, and each of its states is the state
\* of a slot whose parent slot holds the state just before it.
C2_PathRootToGoal ==
    success =>
        LET L == Len(solution_path)
            w == PathSlots(L, k)
        IN /\ L >= 1
           /\ solution_path[1] = x_init
           /\ solution_path[L] = x_goal
           /\ w[1] = 0
           /\ \A j \in 1..L : w[j] \in Occupied /\ solution_path[j] = V[w[j]]
           /\ \A j \in 1..(L - 1) : solution_path[j] = V[P[w[j + 1]]]

\* a solution path through an inner node
C2_Witness == success /\ Len(solution_path) >= 3

\* ------------------------------------------------------------------ C3
\* in the loop a step is possible: the loop exit, or an iteration on a sample
\* the model steers exactly
CanStep ==
    \/ ~HasNext(k, max_iters)
    \/ \E zc \in ZDraws, s \in Box :
          LET xr == Sample(zc, s, goal_bias, x_goal)
          IN SteerExact(V[find_nearest(V, xr)], xr, eps)

C3_Budget ==
    /\ pc = "loop" => CanStep
    /\ k <= max_iters - 1
    /\ draws = 2 * k
    /\ success => pc = "done"
    /\ pc = "done" => (success \/ k = max_iters - 1)
    /\ ~success => solution_path = <<>>
    /\ (max_iters = 1 /\ pc = "done") =>
           (~success /\ k = 0 /\ Occupied = {0} /\ V[0] = x_init)

\* iterations and loop exits still ahead of solve: every step uses one up
Remaining == (max_iters - 1 - k) + (IF pc = "loop" THEN 1 ELSE 0)

\* C3: solve ends, after at most max_iters - 1 iterations, SUCCEEDED or
\* EXHAUSTED (every step brings the end nearer and none is left once it is
\* reached); without a success it ends EXHAUSTED with an empty solution
\* path once the budget is spent, and max_iters = 1 runs no iteration.
C3_Terminates ==
    /\ C3_Budget
    /\ [][/\ C3_Budget'
          /\ pc = "loop"
          /\ Remaining' < Remaining
          /\ Remaining' >= 0
          /\ pc' = "done" => Outcome' \in {"SUCCEEDED", "EXHAUSTED"}]_vars

\* the whole budget spent on iterations that did not succeed
C3_Witness ==
    pc = "done" /\ Outcome = "EXHAUSTED" /\ k = max_iters - 1 /\ k >= 2

\* ------------------------------------------------------------------ C4
\* the tree holds an inserted state equal to x_goal
GoalInserted == \E i \in Occupied \ {0} : array_equal(V[i], x_goal)

\* once a goal state is inserted solve has succeeded and stopped, and the
\* goal is at the last slot written
StoppedAtGoal ==
    GoalInserted =>
        /\ success /\ pc = "done"
        /\ array_equal(V[k], x_goal)
        /\ \A i \in Occupied : i <= k

\* C4: an iteration that inserts x_goal makes solve SUCCEEDED and ends it;
\* from then on no iteration runs, no sample is drawn, V and P keep their
\* values, and the goal node stays the last node inserted.
C4_StopsAtGoal ==
    /\ StoppedAtGoal
    /\ [][/\ StoppedAtGoal'
          /\ (draws' # draws /\ free' /\ array_equal(xnew', x_goal)) =>
                 (success' /\ pc' = "done")
          /\ success =>
                 (V' = V /\ P' = P /\ draws' = draws /\ k' = k)]_vars

\* a success that left part of the budget unused
C4_Witness == success /\ GoalInserted /\ k < max_iters - 1

\* ------------------------------------------------------------------ C5
\* C5: a step declares SUCCEEDED exactly when it is an iteration whose
\* steered state equals x_goal and whose motion is feasible.
C5_SuccessIffGoalFeasible ==
    [][success' <=>
          (draws' # draws /\ free' /\ array_equal(xnew', x_goal))]_vars

\* a feasible new state closer than eps to x_goal, but not x_goal: no success
C5_Witness ==
    /\ k >= 1 /\ free /\ ~array_equal(xnew, x_goal)
    /\ Norm2(Sub(xnew, x_goal)) < eps * eps
    /\ ~success

\* ------------------------------------------------------------------ C6
NoRepeat(w) == \A a, b \in 1..Len(w) : a # b => w[a] # w[b]

\* C6: the parent walk from any occupied slot visits at most as many slots
\* as the tree has states, none of them twice, all of them occupied, and
\* the last one is the root, whose parent is NONE.
C6_WalkEndsAtRoot ==
    \A i \in Occupied :
        LET w == entire_path(P, i)
        IN /\ Len(w) >= 1
           /\ Len(w) <= Cardinality(Occupied)
           /\ NoRepeat(w)
           /\ \A j \in 1..Len(w) : w[j] \in Occupied
           /\ w[1] = i
           /\ w[Len(w)] = 0
           /\ P[w[Len(w)]] = NONE

\* a walk over three nodes
C6_Witness == \E i \in Occupied : Len(entire_path(P, i)) >= 3

\* ------------------------------------------------------------------ C7
\* C7: an iteration whose motion is infeasible writes neither V nor P,
\* leaves the outcome RUNNING, and advances the loop counter by one.
C7_InfeasibleDiscarded ==
    [][(draws' # draws /\ ~free') =>
          /\ V' = V /\ P' = P
          /\ solution_path' = solution_path
          /\ Outcome = "RUNNING" /\ Outcome' = "RUNNING"
          /\ k' = k + 1]_vars

\* an infeasible iteration after a feasible one
C7_Witness ==
    /\ k >= 2 /\ ~free /\ xnew # NoState /\ pc = "loop"
    /\ Occupied # {0}

\* ------------------------------------------------------------------ C8
\* the states of the tree when iteration k called find_nearest
TreeBefore == {i \in Occupied : i < k}

\* C8: find_nearest returns the lowest index among the states of the tree
\* that are nearest to the query, whatever their coordinates.
C8_NearestOverTree ==
    k >= 1 =>
        /\ xnearidx \in TreeBefore
        /\ \A j \in TreeBefore :
              LET dn == Norm2(Sub(V[xnearidx], xrand))
                  dj == Norm2(Sub(V[j], xrand))
              IN dn <= dj /\ (dj = dn => xnearidx <= j)

\* ------------------------------------------------------------------ C9
\* C9: the occupied slots are the contiguous prefix 0..(number of states-1).
C9_ContiguousPrefix == Occupied = 0..(Cardinality(Occupied) - 1)

\* ----------------------------------------------------------------- C10
\* C10: n is the number of states of the tree, which are V[0..n-1].
C10_CountMatches == n = Cardinality(Occupied)

\* ----------------------------------------------------------------- C11
\* C11: the parent of every occupied slot other than the root is itself an
\* occupied slot written before it, and the index find_nearest returned in
\* the last iteration is a slot that held a state of the tree at that time.
C11_ParentPresent ==
    /\ \A i \in Occupied \ {0} : P[i] \in Occupied /\ P[i] < i
    /\ k >= 1 => xnearidx \in TreeBefore

\* an insertion made past a never-written slot that lies nearer to the query
\* than every state of the tree
C11_Witness ==
    /\ k = 2 /\ 1 \notin Occupied /\ 2 \in Occupied
    /\ \A i \in TreeBefore : Norm2(Sub(V[1], xrand)) < Norm2(Sub(V[i], xrand))

\* ----------------------------------------------------------------- C12
\* the segment from a to b meets no obstacle segment
NoCrossing(a, b) ==
    \A line \in obstacles : ~line_line_intersection(<<a, b>>, line)

\* C12: the obstacle set never changes, the motion from the parent's state
\* to the state of every occupied slot passes the feasibility check, and so
\* does every pair of consecutive states of the solution path.
C12_EdgesFree ==
    /\ \A i \in Occupied \ {0} : NoCrossing(V[P[i]], V[i])
    /\ \A j \in 1..(Len(solution_path) - 1) :
          NoCrossing(solution_path[j], solution_path[j + 1])
    /\ [][/\ obstacles' = obstacles
          /\ \A i \in Occupied' \ {0} : NoCrossing(V'[P'[i]], V'[i])
          /\ \A j \in 1..(Len(solution_path') - 1) :
                NoCrossing(solution_path'[j], solution_path'[j + 1])]_vars

\* a solution path of two edges found around a wall, after an attempt the
\* wall blocked
C12_Witness ==
    /\ obstacles # {} /\ success /\ Len(solution_path) >= 3
    /\ \E j \in 1..(Len(solution_path) - 1) :
          solution_path[j][1] < 1 /\ solution_path[j + 1][1] >= 1

\* ----------------------------------------------------------------- C13
\* the configurations spec section 7 calls invalid
InvalidConfiguration ==
    eps <= 0 \/ goal_bias < 0 \/ goal_bias > 2 \/ max_iters < 1

\* C13: on an invalid configuration solve draws no sample and runs no
\* iteration.
C13_InvalidRejected == InvalidConfiguration => (draws = 0 /\ k = 0)

\* ----------------------------------------------------------------- C14
\* every sample so far was x_goal and the tree is one chain on the segment
\* from x_init to x_goal: slot i has parent i - 1 and lies i steps of eps
\* from x_init
StraightChain ==
    /\ k >= 1 => array_equal(xrand, x_goal)
    /\ Occupied = 0..k
    /\ \A i \in 1..k :
          /\ P[i] = i - 1
          /\ V[i][2] = 0
          /\ V[i][1] = IF i * eps < x_goal[1] - x_init[1]
                       THEN x_init[1] + i * eps ELSE x_goal[1]

\* C14 as claimed: with max_iters = 10 the scenario grows a straight chain
\* and ends SUCCEEDED.
C14_ScenarioSucceeds ==
    max_iters = 10 => (StraightChain /\ (pc = "done" => success))

\* C14 as amended: with max_iters = 10 the scenario grows a straight chain
\* and ends EXHAUSTED after 9 iterations with an empty solution path; the
\* scenario ends SUCCEEDED exactly when max_iters is at least 13.
C14_ScenarioExhausts ==
    /\ StraightChain
    /\ max_iters = 10 =>
          /\ ~success /\ solution_path = <<>>
          /\ pc = "done" => (k = 9 /\ Outcome = "EXHAUSTED")
    /\ pc = "done" => (success <=> max_iters >= 13)
    /\ success => (k = 12 /\ Len(solution_path) = 13)

\* the scenario at the end of its budget
C14_Witness ==
    /\ max_iters = 10 /\ pc = "done" /\ k = 9
    /\ V[9] = <<33, 0>> /\ P[9] = 8

\* ----------------------------------------------------------------- C15
\* C15: V and P keep their max_iters rows, the slot an iteration writes is
\* one of them, and the tree never holds more than max_iters states.
C15_WithinCapacity ==
    /\ DOMAIN V = 0..(max_iters - 1)
    /\ DOMAIN P = 0..(max_iters - 1)
    /\ k \in 0..(max_iters - 1)
    /\ Occupied \subseteq 0..(max_iters - 1)
    /\ Cardinality(Occupied) <= max_iters
    /\ n <= max_iters

\* every slot of the arrays holds a state: the tree is full
C15_Witness == max_iters >= 3 /\ Occupied = 0..(max_iters - 1)

\* ----------------------------------------------------------------- C16
\* c lies on the segment from a to b
OnSegment(a, b, c) ==
    /\ (b[1] - a[1]) * (c[2] - a[2]) = (b[2] - a[2]) * (c[1] - a[1])
    /\ (c[1] - a[1]) * (c[1] - b[1]) <= 0
    /\ (c[2] - a[2]) * (c[2] - b[2]) <= 0

\* C16: the state steer_towards returned in the last iteration, for the
\* nearest state x, the sample y and eps > 0, is y when y is closer to x than
\* eps, and otherwise a point of the segment from x to y at distance eps
\* from x.
C16_SteerBounded ==
    k >= 1 =>
        LET x == V[xnearidx]
            y == xrand
        IN IF Norm2(Sub(y, x)) < eps * eps
           THEN xnew = y
           ELSE /\ Norm2(Sub(xnew, x)) = eps * eps
                /\ OnSegment(x, y, xnew)

\* a steer cut short: the sample is farther than eps and is not reached
C16_Witness ==
    /\ k >= 1 /\ eps = 2
    /\ Norm2(Sub(xrand, V[xnearidx])) > eps * eps
    /\ xnew # xrand /\ xnew # V[xnearidx]

\* ----------------------------------------------------------------- C18
\* C18: the state of every occupied slot other than the root is at most eps
\* away from its parent's state.
C18_EdgesBounded ==
    \A i \in Occupied \ {0} : Norm2(Sub(V[i], V[P[i]])) <= eps * eps

\* a tree with an edge of length eps and a shorter one
C18_Witness ==
    /\ \E i \in Occupied \ {0} : Norm2(Sub(V[i], V[P[i]])) = eps * eps
    /\ \E i \in Occupied \ {0} :
          /\ Norm2(Sub(V[i], V[P[i]])) < eps * eps
          /\ Norm2(Sub(V[i], V[P[i]])) > 0

\* ----------------------------------------------------------------- C19
\* C19: after k iterations solve has made 2k draws, alternately the bias
\* coin z and the box sample, whether or not the bias fired.
C19_DrawsPerIteration ==
    /\ draws = 2 * k
    /\ Len(drawlog) = draws
    /\ \A j \in 1..Len(drawlog) :
          drawlog[j] = IF j % 2 = 1 THEN "z" ELSE "xrand"

\* two iterations, the last with the bias fired and the box sample replaced
\* by x_goal
C19_Witness ==
    /\ k = 2 /\ goal_bias = 1 /\ z < goal_bias
    /\ array_equal(xrand, x_goal) /\ draws = 4

=============================================================================
